---- MODULE Spec2Model ----
(***************************************************************************)
(* A model of the vecto crate: the generic two-component vector            *)
(* Vector2<T>, its conversions (src/src/from.rs), its operator overloads   *)
(* (src/src/ops.rs) and its geometry methods (src/src/lib.rs).             *)
(*                                                                         *)
(* The library holds no state of its own, so the state machine is that of  *)
(* a client: it constructs a vector, then calls the library's operations   *)
(* on it one statement at a time.  `frame` is the statement in progress    *)
(* (the operation, its operands and what it returned); Return ends it.     *)
(*                                                                         *)
(* Two component types are modelled.  T = "int" is a two's complement      *)
(* signed integer of IntBits bits (i8 .. i64 narrowed), with the overflow  *)
(* behaviour of the build profile.  T = "float" is an IEEE 754 binary      *)
(* format of Prec significand bits (f32 narrowed).                         *)
(***************************************************************************)
EXTENDS Integers, Sequences, FiniteSets, TLC

VARIABLES
    ty,               \* the component type T the client uses: "int" or "float"
    overflow_checks,  \* build profile: TRUE = debug (overflow panics), FALSE = release (wraps)
    pc,               \* "start" (no vector yet), "ready", "panicked"
    acc,              \* the client's vector `v`; the in-place operators mutate it
    chain,            \* the same computation done with the binary operators
    frame             \* the call in progress, NoFrame between statements

vars == <<ty, overflow_checks, pc, acc, chain, frame>>

(***************************************************************************)
(* Bounds of the model.                                                    *)
(***************************************************************************)
IntBits == 3
MaxLen == 3
Prec == 4
ExpMax == 2
ExpMin == 17

(***************************************************************************)
(* Outcomes of a call: a returned value, or a panic.                       *)
(***************************************************************************)
Ok(x) == [ok |-> TRUE, val |-> x]
Panic == [ok |-> FALSE]

(***************************************************************************)
(* T = "int": a signed integer of IntBits bits.                            *)
(***************************************************************************)
IntMin == -(2 ^ (IntBits - 1))
IntMax == (2 ^ (IntBits - 1)) - 1
Ints == IntMin .. IntMax

Wrap(n) == ((n - IntMin) % (2 ^ IntBits)) + IntMin

\* The result of an integer operation whose exact value is n.
Overflowing(n) ==
    IF n \in Ints THEN Ok(n)
    ELSE IF overflow_checks THEN Panic
    ELSE Ok(Wrap(n))

Magnitude(n) == IF n < 0 THEN -n ELSE n

\* Rust's integer division truncates toward zero.
TruncDiv(a, b) ==
    IF (a < 0) = (b < 0) THEN Magnitude(a) \div Magnitude(b)
    ELSE -(Magnitude(a) \div Magnitude(b))

int_add(a, b) == Overflowing(a + b)
int_sub(a, b) == Overflowing(a - b)
int_mul(a, b) == Overflowing(a * b)
\* Division by zero and MIN / -1 panic in every build profile.
int_div(a, b) ==
    IF b = 0 THEN Panic
    ELSE IF a = IntMin /\ b = -1 THEN Panic
    ELSE Ok(TruncDiv(a, b))
int_rem(a, b) ==
    IF b = 0 THEN Panic
    ELSE IF a = IntMin /\ b = -1 THEN Panic
    ELSE Ok(a - b * TruncDiv(a, b))
int_neg(a) == Overflowing(-a)

(***************************************************************************)
(* T = "float": an IEEE 754 binary format with Prec significand bits       *)
(* (hidden bit included) and exponents -ExpMin .. ExpMax (f32: 24 bits,    *)
(* -126 .. 127), rounding to nearest, ties to even, with subnormals,       *)
(* signed zeros, infinities and NaN.  A finite value is sign s and         *)
(* magnitude m counted in units of the smallest subnormal, so 1.0 is       *)
(* OneUnits units.  ExpMin is deep enough for the literal 0.00001 to be a  *)
(* normal number.                                                          *)
(***************************************************************************)
ExpRange == ExpMax + ExpMin              \* emax - emin
Hidden == 2 ^ (Prec - 1)                 \* smallest normal significand
OneBits == Prec - 1 + ExpMin             \* 1.0 is 2^OneBits units
OneUnits == 2 ^ OneBits                  \* 1.0 / smallest subnormal
MaxUnits == (2 * Hidden - 1) * (2 ^ ExpRange)

Fin(s, m) == [c |-> "fin", s |-> s, m |-> m]
Inf(s) == [c |-> "inf", s |-> s, m |-> 0]
NaN == [c |-> "nan", s |-> 0, m |-> 0]

FloatMags == {c * (2 ^ k) : c \in 0 .. (2 * Hidden - 1), k \in 0 .. ExpRange}
Floats == {Fin(s, m) : s \in {0, 1}, m \in FloatMags} \cup {Inf(0), Inf(1), NaN}

IsNaN(a) == a.c = "nan"
IsInf(a) == a.c = "inf"
IsFin(a) == a.c = "fin"
IsZero(a) == a.c = "fin" /\ a.m = 0
Signed(a) == IF a.s = 1 THEN -a.m ELSE a.m     \* a finite value, in units
Xor(s, t) == IF s = t THEN 0 ELSE 1

\* m units as Sig(m) * 2^Exp2(m) with Sig(m) odd (or m = 0).
RECURSIVE Exp2(_)
Exp2(m) == IF m = 0 \/ m % 2 = 1 THEN 0 ELSE 1 + Exp2(m \div 2)
Sig(m) == m \div (2 ^ Exp2(m))

\* The exponent step k of q units: values from q up are spaced 2^k units apart.
RECURSIVE Step(_)
Step(q) == IF q < 2 * Hidden THEN 0 ELSE 1 + Step(q \div 2)

\* num/den units (num >= 0, den > 0) rounded to nearest, ties to even.
Round(s, num, den) ==
    LET k == Step(num \div den)
        ulp == den * (2 ^ k)
        c == num \div ulp
        r == num % ulp
        up == (2 * r > ulp) \/ (2 * r = ulp /\ c % 2 = 1)
        m == (IF up THEN c + 1 ELSE c) * (2 ^ k)
    IN IF m > MaxUnits THEN Inf(s) ELSE Fin(s, m)

\* How many of e doublings bring num/den up to a full significand.
RECURSIVE Lift(_, _, _)
Lift(num, den, e) ==
    IF e = 0 \/ num >= den * 2 * Hidden THEN 0 ELSE 1 + Lift(2 * num, den, e - 1)

\* (num/den) * 2^e units rounded.  From a full significand on, rounding
\* commutes with a scaling by a power of two: the quotient is rounded after
\* Lift of the e doublings and the rest are applied to the result.
RoundScaled(s, num, den, e) ==
    IF num = 0 THEN Fin(s, 0)
    ELSE IF e <= 0 THEN Round(s, num, den * (2 ^ (-e)))
    ELSE LET j == Lift(num, den, e)
             m == Round(s, num * (2 ^ j), den).m
             rest == e - j
         IN IF rest > ExpRange + Prec THEN Inf(s)
            ELSE IF m > MaxUnits \div (2 ^ rest) THEN Inf(s)
            ELSE Fin(s, m * (2 ^ rest))

\* A decimal literal n/d as the float nearest to it.
Literal(n, d) == RoundScaled(0, n, d, OneBits)

\* The integer square root of n < 2^30, one bit at a time from bit b down.
RECURSIVE IsqrtFrom(_, _, _)
IsqrtFrom(n, r, b) ==
    IF b = 0 THEN r
    ELSE IsqrtFrom(n, IF (r + b) * (r + b) <= n THEN r + b ELSE r, b \div 2)
Isqrt(n) == IsqrtFrom(n, 0, 2 ^ 14)

\* sqrt(n) units, rounded to the nearest float, ties to even.
RoundSqrt(n) ==
    LET k == Step(Isqrt(n))
        c == Isqrt(n \div (4 ^ k))
        mid == (2 * c + 1) * (2 * c + 1) * (4 ^ k)     \* (2 * midpoint)^2
        up == (4 * n > mid) \/ (4 * n = mid /\ c % 2 = 1)
        m == (IF up THEN c + 1 ELSE c) * (2 ^ k)
    IN Fin(0, m)

float_neg(a) == IF IsNaN(a) THEN NaN ELSE [a EXCEPT !.s = 1 - a.s]
float_abs(a) == IF IsNaN(a) THEN NaN ELSE [a EXCEPT !.s = 0]

float_add(a, b) ==
    IF IsNaN(a) \/ IsNaN(b) THEN NaN
    ELSE IF IsInf(a) THEN (IF IsInf(b) /\ b.s # a.s THEN NaN ELSE a)
    ELSE IF IsInf(b) THEN b
    ELSE LET z == Signed(a) + Signed(b)
         IN IF z = 0 THEN Fin(IF a.s = 1 /\ b.s = 1 THEN 1 ELSE 0, 0)
            ELSE IF z < 0 THEN Round(1, -z, 1)
            ELSE Round(0, z, 1)

float_sub(a, b) == float_add(a, float_neg(b))

float_mul(a, b) ==
    IF IsNaN(a) \/ IsNaN(b) THEN NaN
    ELSE IF IsInf(a) \/ IsInf(b)
         THEN (IF IsZero(a) \/ IsZero(b) THEN NaN ELSE Inf(Xor(a.s, b.s)))
    ELSE RoundScaled(Xor(a.s, b.s), Sig(a.m) * Sig(b.m), 1,
                     Exp2(a.m) + Exp2(b.m) - OneBits)

float_div(a, b) ==
    IF IsNaN(a) \/ IsNaN(b) THEN NaN
    ELSE IF IsInf(a) THEN (IF IsInf(b) THEN NaN ELSE Inf(Xor(a.s, b.s)))
    ELSE IF IsInf(b) THEN Fin(Xor(a.s, b.s), 0)
    ELSE IF IsZero(b) THEN (IF IsZero(a) THEN NaN ELSE Inf(Xor(a.s, b.s)))
    ELSE RoundScaled(Xor(a.s, b.s), Sig(a.m), Sig(b.m),
                     Exp2(a.m) + OneBits - Exp2(b.m))

\* The remainder has the sign of the dividend and is exact.
float_rem(a, b) ==
    IF IsNaN(a) \/ IsNaN(b) \/ IsInf(a) \/ IsZero(b) THEN NaN
    ELSE IF IsInf(b) THEN a
    ELSE Fin(a.s, a.m % b.m)

float_sqrt(a) ==
    IF IsNaN(a) THEN NaN
    ELSE IF IsZero(a) THEN a
    ELSE IF a.s = 1 THEN NaN
    ELSE IF IsInf(a) THEN a
    ELSE \* sqrt(c * 2^t) units with t even: a square root is never subnormal,
         \* so it is rounded at 4^Prec times c and scaled back.
         LET odd == (Exp2(a.m) + OneBits) % 2
             c == Sig(a.m) * (2 ^ odd)
             d == (Exp2(a.m) + OneBits - odd) \div 2 - Prec
             m == RoundSqrt(c * (4 ^ Prec)).m
         IN Fin(0, IF d >= 0 THEN m * (2 ^ d) ELSE m \div (2 ^ (-d)))

\* The comparison operators of f32: every comparison with NaN is false
\* (!= is true), and -0.0 == 0.0.
float_eq(a, b) ==
    /\ ~IsNaN(a) /\ ~IsNaN(b)
    /\ \/ IsInf(a) /\ IsInf(b) /\ a.s = b.s
       \/ IsFin(a) /\ IsFin(b) /\ Signed(a) = Signed(b)
float_lt(a, b) ==
    /\ ~IsNaN(a) /\ ~IsNaN(b) /\ ~float_eq(a, b)
    /\ \/ IsInf(a) /\ a.s = 1
       \/ IsInf(b) /\ b.s = 0
       \/ IsFin(a) /\ IsFin(b) /\ Signed(a) < Signed(b)
float_ne(a, b) == ~float_eq(a, b)
float_gt(a, b) == float_lt(b, a)
float_le(a, b) == float_lt(a, b) \/ float_eq(a, b)
float_ge(a, b) == float_le(b, a)

FZero == Fin(0, 0)
FOne == Fin(0, OneUnits)

(***************************************************************************)
(* The component type's own operators, as the generic code calls them.     *)
(***************************************************************************)
OpNames == {"add", "div", "mul", "rem", "sub"}
AssignNames == {"add_assign", "div_assign", "mul_assign", "rem_assign", "sub_assign"}

\* a.$name(b) for one of core::ops::{Add, Div, Mul, Rem, Sub}
scalar_op(T, name, a, b) ==
    IF T = "int"
    THEN CASE name = "add" -> int_add(a, b)
           [] name = "div" -> int_div(a, b)
           [] name = "mul" -> int_mul(a, b)
           [] name = "rem" -> int_rem(a, b)
           [] name = "sub" -> int_sub(a, b)
    ELSE CASE name = "add" -> Ok(float_add(a, b))
           [] name = "div" -> Ok(float_div(a, b))
           [] name = "mul" -> Ok(float_mul(a, b))
           [] name = "rem" -> Ok(float_rem(a, b))
           [] name = "sub" -> Ok(float_sub(a, b))

\* The operator a compound assignment applies.
OpOf(name) ==
    CASE name = "add_assign" -> "add"
      [] name = "div_assign" -> "div"
      [] name = "mul_assign" -> "mul"
      [] name = "rem_assign" -> "rem"
      [] name = "sub_assign" -> "sub"

\* a.$name(b) for one of core::ops::{AddAssign, ...}: the value left in a.
\* For the primitive types a op= b stores a op b.
scalar_assign(T, name, a, b) == scalar_op(T, OpOf(name), a, b)

scalar_neg(T, a) == IF T = "int" THEN int_neg(a) ELSE Ok(float_neg(a))
scalar_eq(T, a, b) == IF T = "int" THEN a = b ELSE float_eq(a, b)
scalar_lt(T, a, b) == IF T = "int" THEN a < b ELSE float_lt(a, b)
scalar_partial_cmp(T, a, b) ==
    IF scalar_lt(T, a, b) THEN "Less"
    ELSE IF scalar_eq(T, a, b) THEN "Equal"
    ELSE IF scalar_lt(T, b, a) THEN "Greater"
    ELSE "None"
scalar_default(T) == IF T = "int" THEN 0 ELSE FZero

(***************************************************************************)
(* Vector2<T>: construction and conversions.                               *)
(***************************************************************************)
new(x, y) == [x |-> x, y |-> y]
splat(x) == [x |-> x, y |-> x]

from_tuple(t) == new(t[1], t[2])
from_value(value) == splat(value)
from_array(a) == new(a[1], a[2])
into_tuple(value) == <<value.x, value.y>>

\* Mutant of try_from: a longer slice is accepted and truncated.
try_from_at_least_two(value) ==
    IF Len(value) >= 2
    THEN [ok |-> TRUE, val |-> new(value[1], value[2]), reads |-> {0, 1}]
    ELSE [ok |-> FALSE, err |-> <<>>, reads |-> {}]

\* TryFrom<&[T]>: `reads` are the (0-based) indices of the slice it reads.
try_from(value) ==
    IF Len(value) = 2
    THEN [ok |-> TRUE, val |-> new(value[1], value[2]), reads |-> {0, 1}]
    ELSE [ok |-> FALSE, err |-> <<>>, reads |-> {}]

\* #[derive(PartialEq, PartialOrd, Default)]
default(T) == new(scalar_default(T), scalar_default(T))
eq(T, a, b) == scalar_eq(T, a.x, b.x) /\ scalar_eq(T, a.y, b.y)
\* Mutant of partial_cmp: the y components are compared first.
partial_cmp_y_first(T, a, b) ==
    LET c == scalar_partial_cmp(T, a.y, b.y)
    IN IF c = "Equal" THEN scalar_partial_cmp(T, a.x, b.x) ELSE c
partial_cmp(T, a, b) ==
    LET c == scalar_partial_cmp(T, a.x, b.x)
    IN IF c = "Equal" THEN scalar_partial_cmp(T, a.y, b.y) ELSE c
lt(T, a, b) == partial_cmp(T, a, b) = "Less"

(***************************************************************************)
(* The operators of ops.rs.  A reference operand is modelled by the value  *)
(* it points to.                                                           *)
(***************************************************************************)
\* Self::new(px, py), or the panic of the component operation that failed.
Both(px, py) == IF px.ok /\ py.ok THEN Ok(new(px.val, py.val)) ELSE Panic

\* Mutant of op_vec: the y component is computed from self.x.
op_vec_x_twice(T, name, self, rhs) ==
    Both(scalar_op(T, name, self.x, rhs.x), scalar_op(T, name, self.x, rhs.y))

\* op!: the four impls, for rhs a Vector2<T>, &Vector2<T>, T and &T.
op_vec(T, name, self, rhs) ==
    Both(scalar_op(T, name, self.x, rhs.x), scalar_op(T, name, self.y, rhs.y))
op_vec_ref(T, name, self, rhs) ==
    Both(scalar_op(T, name, self.x, rhs.x), scalar_op(T, name, self.y, rhs.y))
op_scalar(T, name, self, rhs) ==
    Both(scalar_op(T, name, self.x, rhs), scalar_op(T, name, self.y, rhs))
\* Mutant of op_scalar_ref: the y component is computed from self.x.
op_scalar_ref_x_twice(T, name, self, rhs) ==
    Both(scalar_op(T, name, self.x, rhs), scalar_op(T, name, self.x, rhs))
op_scalar_ref(T, name, self, rhs) ==
    Both(scalar_op(T, name, self.x, rhs), scalar_op(T, name, self.y, rhs))

\* self.x.$name(rx); self.y.$name(ry): `val` is self as the call leaves it,
\* also when the second statement panics after the first has stored.
Stored(self, px, py) ==
    IF ~px.ok THEN [ok |-> FALSE, val |-> self]
    ELSE IF ~py.ok THEN [ok |-> FALSE, val |-> [self EXCEPT !.x = px.val]]
    ELSE Ok(new(px.val, py.val))
InPlace(T, name, self, rx, ry) ==
    Stored(self, scalar_assign(T, name, self.x, rx), scalar_assign(T, name, self.y, ry))

\* assign!: the four impls.
assign_vec(T, name, self, rhs) == InPlace(T, name, self, rhs.x, rhs.y)
assign_vec_ref(T, name, self, rhs) == InPlace(T, name, self, rhs.x, rhs.y)
assign_scalar(T, name, self, rhs) == InPlace(T, name, self, rhs, rhs)
assign_scalar_ref(T, name, self, rhs) == InPlace(T, name, self, rhs, rhs)

Shapes == {"vec", "vec_ref", "scalar", "scalar_ref"}
VecShapes == {"vec", "vec_ref"}

\* self $name rhs, by the impl the operand's type selects.
op(T, name, shape, self, rhs) ==
    CASE shape = "vec" -> op_vec(T, name, self, rhs)
      [] shape = "vec_ref" -> op_vec_ref(T, name, self, rhs)
      [] shape = "scalar" -> op_scalar(T, name, self, rhs)
      [] shape = "scalar_ref" -> op_scalar_ref(T, name, self, rhs)

\* self $name= rhs
assign(T, name, shape, self, rhs) ==
    CASE shape = "vec" -> assign_vec(T, name, self, rhs)
      [] shape = "vec_ref" -> assign_vec_ref(T, name, self, rhs)
      [] shape = "scalar" -> assign_scalar(T, name, self, rhs)
      [] shape = "scalar_ref" -> assign_scalar_ref(T, name, self, rhs)

AssignOf(name) ==
    CASE name = "add" -> "add_assign"
      [] name = "div" -> "div_assign"
      [] name = "mul" -> "mul_assign"
      [] name = "rem" -> "rem_assign"
      [] name = "sub" -> "sub_assign"

\* Mutant of neg: only the x component is negated.
neg_x_only(T, self) == Both(scalar_neg(T, self.x), Ok(self.y))
neg(T, self) == Both(scalar_neg(T, self.x), scalar_neg(T, self.y))

\* Mutant of orthogonal: the other quarter turn, (-y, x).
orthogonal_negates_y(T, self) ==
    LET n == scalar_neg(T, self.y)
    IN IF n.ok THEN Ok(new(n.val, self.x)) ELSE Panic

\* Mutant of orthogonal: the components are swapped and none is negated.
orthogonal_swap_only(T, self) == Ok(new(self.y, self.x))

orthogonal(T, self) ==
    LET n == scalar_neg(T, self.x)
    IN IF n.ok THEN Ok(new(self.y, n.val)) ELSE Panic

(***************************************************************************)
(* impl<T: FloatAlone> Vector2<T>, for T = "float".  The operators / and   *)
(* * on a vector and a scalar are those of ops.rs; they never panic on a   *)
(* float.                                                                  *)
(***************************************************************************)
\* unsafe { T::zero() }
zero == FZero

dot(self, with) ==
    float_add(float_mul(self.x, with.x), float_mul(self.y, with.y))

length_squared(self) ==
    float_add(float_mul(self.x, self.x), float_mul(self.y, self.y))

length(self) ==
    float_sqrt(float_add(float_mul(self.x, self.x), float_mul(self.y, self.y)))

\* Mutant of limit_length: the length is not checked against zero.
limit_length_unguarded(self, len) ==
    LET l == length(self)
    IN IF float_lt(len, l)
       THEN [val |-> op_scalar("float", "mul",
                               op_scalar("float", "div", self, l).val, len).val,
             divided |-> TRUE]
       ELSE [val |-> self, divided |-> FALSE]

\* Mutant of limit_length: the vector is scaled by len without being divided
\* by its length.
limit_length_no_division(self, len) ==
    LET l == length(self)
    IN IF float_gt(l, zero) /\ float_lt(len, l)
       THEN [val |-> op_scalar("float", "mul", self, len).val, divided |-> TRUE]
       ELSE [val |-> self, divided |-> FALSE]

\* `divided` records whether the call divided the vector.
limit_length(self, len) ==
    LET l == length(self)
    IN IF float_gt(l, zero) /\ float_lt(len, l)
       THEN [val |-> op_scalar("float", "mul",
                               op_scalar("float", "div", self, l).val, len).val,
             divided |-> TRUE]
       ELSE [val |-> self, divided |-> FALSE]

normalized(self) ==
    LET l == length_squared(self)
    IN IF float_ne(l, zero)
       THEN [val |-> op_scalar("float", "div", self, float_sqrt(l)).val,
             divided |-> TRUE]
       ELSE [val |-> self, divided |-> FALSE]

(***************************************************************************)
(* angle.cos() and angle.sin() of a float angle, rounded to the nearest    *)
(* float.  Below 2^-7 the cosine rounds to 1 and the sine to the angle     *)
(* itself.  From there on the angle is reduced by whole quarter turns and  *)
(* the Taylor polynomials are summed in fixed point with TrigBits          *)
(* fractional bits.                                                        *)
(***************************************************************************)
TrigBits == 15
TrigOne == 2 ^ TrigBits
PiHalf == (355 * TrigOne + 113) \div 226          \* pi / 2 in fixed point

\* The fixed-point product, rounded.
FxMul(a, b) == (a * b + TrigOne \div 2) \div TrigOne

\* cos r and sin r for 0 <= r <= pi / 4, in fixed point.
FxCos(r) ==
    LET t == FxMul(r, r)
        t2 == FxMul(t, t)
        t3 == FxMul(t2, t)
        t4 == FxMul(t2, t2)
    IN TrigOne - (t + 1) \div 2 + (t2 + 12) \div 24 - (t3 + 360) \div 720
               + (t4 + 20160) \div 40320
FxSin(r) ==
    LET t == FxMul(r, r)
        t2 == FxMul(t, t)
        t3 == FxMul(t2, t)
        t4 == FxMul(t2, t2)
    IN FxMul(r, TrigOne - (t + 3) \div 6 + (t2 + 60) \div 120 - (t3 + 2520) \div 5040
                        + (t4 + 181440) \div 362880)

\* <<cos x, sin x>> in fixed point for x = m units, m >= OneUnits / 2^7.
FxCosSin(m) ==
    LET x == m \div (2 ^ (OneBits - TrigBits))
        k == (x + PiHalf \div 2) \div PiHalf       \* nearest whole quarter turn
        d == x - k * PiHalf
        c == FxCos(Magnitude(d))
        s == IF d < 0 THEN -FxSin(-d) ELSE FxSin(d)
    IN CASE k % 4 = 0 -> <<c, s>>
         [] k % 4 = 1 -> <<-s, c>>
         [] k % 4 = 2 -> <<-c, -s>>
         [] k % 4 = 3 -> <<s, -c>>

\* The fixed-point value v as a float; negate flips its sign.
FromFx(v, negate) ==
    Round(Xor(IF v < 0 THEN 1 ELSE 0, negate),
          Magnitude(v) * (2 ^ (OneBits - TrigBits)), 1)

float_cos(a) ==
    IF ~IsFin(a) THEN NaN
    ELSE IF a.m < OneUnits \div (2 ^ 7) THEN FOne
    ELSE FromFx(FxCosSin(a.m)[1], 0)

float_sin(a) ==
    IF ~IsFin(a) THEN NaN
    ELSE IF a.m < OneUnits \div (2 ^ 7) THEN a
    ELSE FromFx(FxCosSin(a.m)[2], a.s)

\* std::f32::consts::TAU, and the quarter turn TAU / 4.0 of the doc tests.
TAU == Literal(710, 113)
QuarterTurn == float_div(TAU, Literal(4, 1))

rotated(self, angle) ==
    new(float_sub(float_mul(self.x, float_cos(angle)), float_mul(self.y, float_sin(angle))),
        float_add(float_mul(self.x, float_sin(angle)), float_mul(self.y, float_cos(angle))))

(***************************************************************************)
(* trait Kinda, for f32 and for Vec2.                                      *)
(***************************************************************************)
kinda_eq_f32(self, other, tolerance) ==
    IF float_eq(self, other) THEN TRUE
    ELSE float_lt(float_abs(float_sub(self, other)), tolerance)

approx_eq_f32(self, other) == kinda_eq_f32(self, other, Literal(1, 100000))

\* Mutant of kinda_eq_vec: one component within the tolerance is enough.
kinda_eq_vec_either(self, other, tolerance) ==
    \/ kinda_eq_f32(self.x, other.x, tolerance)
    \/ kinda_eq_f32(self.y, other.y, tolerance)

kinda_eq_vec(self, other, tolerance) ==
    /\ kinda_eq_f32(self.x, other.x, tolerance)
    /\ kinda_eq_f32(self.y, other.y, tolerance)

approx_eq_vec(self, other) == kinda_eq_vec(self, other, Literal(1, 100000))

(***************************************************************************)
(* The client of from.rs and ops.rs over Vector2<T>: it constructs a       *)
(* vector, then applies operators to it.  Every arithmetic statement is    *)
(* run twice, in place on `acc` (acc op= rhs) and with the binary operator *)
(* on `chain` (chain = chain op rhs).                                      *)
(*                                                                         *)
(* An integer component or scalar operand is any of Ints; the components   *)
(* of an integer vector operand are IntOperands: the two extremes, -1, 0,  *)
(* 1 and 2.  Float components and operands are FloatOperands: both zeros,  *)
(* the smallest subnormal, 1, -1, the float after 1, the largest finite    *)
(* float, +infinity and NaN; a float vector that has left Vectors("float") *)
(* is not operated on further.                                             *)
(***************************************************************************)
NoFrame == [op |-> "none"]
Unset == [x |-> 0, y |-> 0]       \* placeholder before construction

UlpOfOne == OneUnits \div Hidden
FloatOperands ==
    {Fin(0, 0), Fin(1, 0), Fin(0, 1), Fin(0, OneUnits), Fin(1, OneUnits),
     Fin(0, OneUnits + UlpOfOne), Fin(0, MaxUnits), Inf(0), NaN}
IntOperands == {IntMin, -1, 0, 1, 2, IntMax}
Scalars(T) == IF T = "int" THEN Ints ELSE FloatOperands
Vectors(T) == {new(x, y) : x \in Scalars(T), y \in Scalars(T)}
Slices(T) == UNION {[1 .. n -> Scalars(T)] : n \in 0 .. MaxLen}
VectorOperands(T) ==
    IF T = "int" THEN {new(x, y) : x \in IntOperands, y \in IntOperands}
    ELSE Vectors(T)
Operands(T, shape) == IF shape \in VecShapes THEN VectorOperands(T) ELSE Scalars(T)

Init ==
    /\ ty \in {"int", "float"}
    /\ overflow_checks \in BOOLEAN
    /\ pc = "start"
    /\ acc = Unset
    /\ chain = Unset
    /\ frame = NoFrame

Idle(at) == pc = at /\ frame = NoFrame

\* let v = <constructor>; both variables start from the same value.
Bind(v, f) ==
    /\ acc' = v
    /\ chain' = v
    /\ pc' = "ready"
    /\ frame' = f
    /\ UNCHANGED <<ty, overflow_checks>>

New ==
    /\ Idle("start")
    /\ \E x \in Scalars(ty), y \in Scalars(ty) :
          Bind(new(x, y), [op |-> "new", x |-> x, y |-> y])

Splat ==
    /\ Idle("start")
    /\ \E x \in Scalars(ty) : Bind(splat(x), [op |-> "splat", x |-> x])

FromTuple ==
    /\ Idle("start")
    /\ \E t \in Scalars(ty) \X Scalars(ty) :
          Bind(from_tuple(t), [op |-> "from_tuple", value |-> t])

FromValue ==
    /\ Idle("start")
    /\ \E x \in Scalars(ty) : Bind(from_value(x), [op |-> "from_value", value |-> x])

FromArray ==
    /\ Idle("start")
    /\ \E a \in [1 .. 2 -> Scalars(ty)] :
          Bind(from_array(a), [op |-> "from_array", value |-> a])

Default ==
    /\ Idle("start")
    /\ Bind(default(ty), [op |-> "default"])

\* let v = Vector2::try_from(&s[..]); on Err there is still no vector.
TryFrom ==
    /\ Idle("start")
    /\ \E s \in Slices(ty) :
          LET r == try_from(s)
          IN /\ frame' = [op |-> "try_from", value |-> s, ret |-> r]
             /\ acc' = IF r.ok THEN r.val ELSE acc
             /\ chain' = IF r.ok THEN r.val ELSE chain
             /\ pc' = IF r.ok THEN "ready" ELSE "start"
             /\ UNCHANGED <<ty, overflow_checks>>

\* let r = <call>: the vector itself is left as it is.
Call(f) ==
    /\ frame' = f
    /\ UNCHANGED <<ty, overflow_checks, pc, acc, chain>>

\* let t: (T, T) = v.into();
IntoTuple ==
    /\ Idle("ready")
    /\ Call([op |-> "into_tuple", self |-> acc, ret |-> into_tuple(acc)])

\* acc $name= rhs; chain = chain $name rhs;
Apply(name) ==
    /\ Idle("ready")
    /\ acc \in Vectors(ty)
    /\ \E shape \in Shapes :
          \E rhs \in Operands(ty, shape) :
             \E a \in {assign(ty, AssignOf(name), shape, acc, rhs)},
                b \in {op(ty, name, shape, chain, rhs)} :
                /\ acc' = a.val
                /\ chain' = IF b.ok THEN b.val ELSE chain
                /\ pc' = IF a.ok /\ b.ok THEN "ready" ELSE "panicked"
                /\ frame' = [op |-> name, shape |-> shape, self |-> acc,
                             rhs |-> rhs, inplace |-> a, binary |-> b]
                /\ UNCHANGED <<ty, overflow_checks>>

Add == Apply("add")
Div == Apply("div")
Mul == Apply("mul")
Rem == Apply("rem")
Sub == Apply("sub")

\* v = <call on v>: the returned vector is stored back.
Rebind(name, r) ==
    /\ acc' = IF r.ok THEN r.val ELSE acc
    /\ chain' = IF r.ok THEN r.val ELSE chain
    /\ pc' = IF r.ok THEN "ready" ELSE "panicked"
    /\ frame' = [op |-> name, self |-> acc, ret |-> r]
    /\ UNCHANGED <<ty, overflow_checks>>

Neg ==
    /\ Idle("ready")
    /\ Rebind("neg", neg(ty, acc))

Orthogonal ==
    /\ Idle("ready")
    /\ Rebind("orthogonal", orthogonal(ty, acc))

\* The statement ends; its temporaries go out of scope.
Return ==
    /\ pc # "panicked"
    /\ frame # NoFrame
    /\ frame' = NoFrame
    /\ UNCHANGED <<ty, overflow_checks, pc, acc, chain>>

Next ==
    \/ New \/ Splat \/ FromTuple \/ FromValue \/ FromArray \/ Default \/ TryFrom
    \/ IntoTuple
    \/ Add \/ Div \/ Mul \/ Rem \/ Sub
    \/ Neg \/ Orthogonal
    \/ Return

Spec == Init /\ [][Next]_vars

(***************************************************************************)
(* Properties of the conversions and operators (under Spec).               *)
(***************************************************************************)
\* The component of the right-hand operand that meets self.x / self.y.
RhsX(shape, rhs) == IF shape \in VecShapes THEN rhs.x ELSE rhs
RhsY(shape, rhs) == IF shape \in VecShapes THEN rhs.y ELSE rhs

\* C1: converting a slice succeeds if and only if it has exactly 2 elements;
\* then the result is Ok(Vector2::new(s[0], s[1])); for any other length it
\* is the payload-free error () and no element of the slice is read.
C1_TryFromExactlyTwo ==
    frame.op = "try_from" =>
        LET s == frame.value
            r == frame.ret
        IN /\ r.ok <=> Len(s) = 2
           /\ Len(s) = 2 =>
                 /\ r.val = [x |-> s[1], y |-> s[2]]
                 /\ acc = r.val
                 /\ pc = "ready"
           /\ Len(s) # 2 =>
                 /\ r.err = <<>>
                 /\ r.reads = {}
                 /\ pc = "start"

\* A slice of three elements was refused.
C1_Witness ==
    /\ frame.op = "try_from"
    /\ Len(frame.value) = 3
    /\ ~frame.ret.ok
    /\ pc = "start"

\* C2: for every operator, vector and right-hand operand (vector or scalar,
\* by value or by reference) the binary form and the in-place form yield the
\* same vector, each component being the scalar operation on the matching
\* components (or on the scalar); so the in-place chain equals the binary
\* chain, and a scalar operand gives what the vector splat(scalar) gives.
C2_BinaryAndInPlaceAgree ==
    /\ pc = "ready" => acc = chain
    /\ frame.op \in OpNames =>
          LET v == frame.self
              sx == scalar_op(ty, frame.op, v.x, RhsX(frame.shape, frame.rhs))
              sy == scalar_op(ty, frame.op, v.y, RhsY(frame.shape, frame.rhs))
          IN /\ frame.binary.ok <=> (sx.ok /\ sy.ok)
             /\ frame.inplace.ok <=> frame.binary.ok
             /\ frame.binary.ok =>
                   /\ frame.binary.val = [x |-> sx.val, y |-> sy.val]
                   /\ frame.inplace.val = frame.binary.val
                   /\ acc = frame.inplace.val
                   /\ chain = frame.binary.val
             /\ frame.shape \notin VecShapes =>
                   frame.binary = op(ty, frame.op, "vec", v, splat(frame.rhs))

\* An in-place remainder by a referenced scalar changed the vector.
C2_Witness ==
    /\ frame.op = "rem"
    /\ frame.shape = "scalar_ref"
    /\ frame.binary.ok
    /\ frame.inplace.ok
    /\ acc # frame.self
    /\ acc.x # acc.y

\* The exact value of an integer operation.
Exact(name, a, b) ==
    CASE name = "add" -> a + b
      [] name = "sub" -> a - b
      [] name = "mul" -> a * b

\* Why an integer component operation a.name(b) panics.
ComponentPanics(name, a, b) ==
    IF name \in {"div", "rem"}
    THEN b = 0 \/ (a = IntMin /\ b = -1)
    ELSE overflow_checks /\ Exact(name, a, b) \notin Ints

\* C4 as claimed: no operation other than the conversion from a slice fails.
C4_EveryOtherOperationTotal == pc # "panicked"

\* C4 as amended: try_from is the only operation that returns an error, and
\* construction and the other conversions always return; an operator, its
\* in-place form, negation and orthogonal() panic exactly when the component
\* type's own operation panics: over an integer T, / and % on a zero divisor
\* or on MIN / -1, and + - * and negation on overflow when the build checks
\* overflow; over a float T never.
C4_PanicsOnlyFromComponent ==
    /\ pc = "panicked" =>
          /\ ty = "int"
          /\ frame.op \in OpNames \cup {"neg", "orthogonal"}
    /\ frame.op \in {"new", "splat", "from_tuple", "from_value", "from_array",
                     "default", "into_tuple"} => pc = "ready"
    /\ (ty = "int" /\ frame.op \in OpNames) =>
          LET v == frame.self
          IN (pc = "panicked") <=>
                \/ ComponentPanics(frame.op, v.x, RhsX(frame.shape, frame.rhs))
                \/ ComponentPanics(frame.op, v.y, RhsY(frame.shape, frame.rhs))
    /\ (ty = "int" /\ frame.op = "neg") =>
          ((pc = "panicked") <=>
              (overflow_checks /\ (frame.self.x = IntMin \/ frame.self.y = IntMin)))
    /\ (ty = "int" /\ frame.op = "orthogonal") =>
          ((pc = "panicked") <=> (overflow_checks /\ frame.self.x = IntMin))

\* A remainder panicked in a build without overflow checks.
C4_Witness ==
    /\ pc = "panicked"
    /\ ~overflow_checks
    /\ frame.op = "rem"
    /\ frame.shape = "vec"
    /\ frame.rhs.x # 0
    /\ frame.rhs.y # 0

HasMin(v) == ty = "int" /\ (v.x = IntMin \/ v.y = IntMin)
HasNaN(v) == ty = "float" /\ (IsNaN(v.x) \/ IsNaN(v.y))

\* C5 as claimed: -(-v) == v for every vector, the minimum of a signed
\* integer type included.
C5_DoubleNegation ==
    frame.op = "neg" =>
        /\ frame.ret.ok
        /\ neg(ty, frame.ret.val).ok
        /\ eq(ty, neg(ty, frame.ret.val).val, frame.self)

\* C5 as amended: -v is Vector2::new(-x, -y); it panics exactly when the
\* build checks overflow and a component is the minimum of a signed integer
\* type; otherwise -(-v) is v again, component for component, and
\* -(-v) == v unless a component is NaN.
C5_DoubleNegationUnlessPanicOrNaN ==
    frame.op = "neg" =>
        LET v == frame.self
            r == frame.ret
        IN /\ r.ok <=> ~(overflow_checks /\ HasMin(v))
           /\ r.ok =>
                 /\ r.val = [x |-> scalar_neg(ty, v.x).val, y |-> scalar_neg(ty, v.y).val]
                 /\ neg(ty, r.val) = Ok(v)
                 /\ eq(ty, neg(ty, r.val).val, v) <=> ~HasNaN(v)

\* The minimum was negated in a build that wraps.
C5_Witness ==
    /\ frame.op = "neg"
    /\ ty = "int"
    /\ ~overflow_checks
    /\ frame.self.x = IntMin
    /\ frame.self.y = 1
    /\ frame.ret.ok

\* A float sum that needed no rounding.
ExactSum(a, b) ==
    /\ IsFin(a) /\ IsFin(b)
    /\ Magnitude(Signed(a) + Signed(b)) \in FloatMags

\* C6 as claimed: (a + b) - b == a for all vectors, integer sums that leave
\* the representable range included.
C6_SubUndoesAdd ==
    (frame.op = "add" /\ frame.shape \in VecShapes) =>
        /\ frame.binary.ok
        /\ op(ty, "sub", frame.shape, frame.binary.val, frame.rhs).ok
        /\ eq(ty, op(ty, "sub", frame.shape, frame.binary.val, frame.rhs).val, frame.self)

\* C6 as amended: over an integer T, a + b panics if a component sum
\* overflows and the build checks overflow, and otherwise (a + b) - b == a,
\* wrapped sums included; over a float T, (a + b) - b == a whenever both
\* component sums are exact.
C6_SubUndoesAddUnlessPanicOrRounding ==
    (frame.op = "add" /\ frame.shape \in VecShapes) =>
        LET a == frame.self
            b == frame.rhs
            s == frame.binary
            d == op(ty, "sub", frame.shape, s.val, b)
        IN /\ ty = "int" =>
                 /\ s.ok <=> ~(overflow_checks /\ (a.x + b.x \notin Ints \/ a.y + b.y \notin Ints))
                 /\ s.ok => d.ok /\ d.val = a /\ eq(ty, d.val, a)
           /\ (ty = "float" /\ ExactSum(a.x, b.x) /\ ExactSum(a.y, b.y)) =>
                 s.ok /\ d.ok /\ eq(ty, d.val, a)

\* A sum wrapped around and the subtraction brought it back.
C6_Witness ==
    /\ frame.op = "add"
    /\ frame.shape = "vec"
    /\ ty = "int"
    /\ ~overflow_checks
    /\ frame.self.x + frame.rhs.x > IntMax
    /\ frame.binary.ok
    /\ frame.binary.val.x < 0

(***************************************************************************)
(* The client of lib.rs over Vec2 = Vector2<f32>: it constructs a vector   *)
(* and calls the value-returning methods on it.  Components and scalar     *)
(* arguments are drawn from FloatInputs: both signs of zero, the smallest  *)
(* subnormal, the smallest normal, 1, the float after 1, 2 and the largest *)
(* finite float, both infinities and NaN.                                  *)
(***************************************************************************)
InputMags == {0, 1, Hidden, OneUnits, OneUnits + UlpOfOne, 2 * OneUnits, MaxUnits}
FloatInputs ==
    {Fin(s, m) : s \in {0, 1}, m \in InputMags} \cup {Inf(0), Inf(1), NaN}
FloatVectors == {new(x, y) : x \in FloatInputs, y \in FloatInputs}
Tolerances ==
    {Fin(1, OneUnits), FZero, Fin(0, 1), Fin(0, OneUnits), Literal(1, 100000), Inf(0), NaN}
\* Angles passed to rotated: no turn, a quarter and a half turn either way,
\* a full turn, one radian, an infinity and NaN.
Angles ==
    {FZero, QuarterTurn, float_neg(QuarterTurn),
     float_add(QuarterTurn, QuarterTurn), float_neg(float_add(QuarterTurn, QuarterTurn)),
     TAU, FOne, Inf(0), NaN}

InitFloat ==
    /\ ty = "float"
    /\ overflow_checks \in BOOLEAN
    /\ pc = "start"
    /\ acc = Unset
    /\ chain = Unset
    /\ frame = NoFrame

FloatNew ==
    /\ Idle("start")
    /\ \E x \in FloatInputs, y \in FloatInputs :
          Bind(new(x, y), [op |-> "new", x |-> x, y |-> y])

Normalized ==
    /\ Idle("ready")
    /\ Call([op |-> "normalized", self |-> acc, ret |-> normalized(acc)])

LimitLength ==
    /\ Idle("ready")
    /\ \E len \in FloatInputs :
          Call([op |-> "limit_length", self |-> acc, len |-> len,
                ret |-> limit_length(acc, len)])

FloatOrthogonal ==
    /\ Idle("ready")
    /\ Call([op |-> "orthogonal", self |-> acc, ret |-> orthogonal("float", acc)])

Rotated ==
    /\ Idle("ready")
    /\ \E angle \in Angles :
          Call([op |-> "rotated", self |-> acc, angle |-> angle,
                ret |-> rotated(acc, angle)])

KindaEqF32 ==
    /\ Idle("ready")
    /\ \E other \in FloatInputs, tolerance \in Tolerances :
          Call([op |-> "kinda_eq_f32", self |-> acc.x, other |-> other,
                tolerance |-> tolerance,
                ret |-> kinda_eq_f32(acc.x, other, tolerance)])

ApproxEqF32 ==
    /\ Idle("ready")
    /\ \E other \in FloatInputs :
          Call([op |-> "approx_eq_f32", self |-> acc.x, other |-> other,
                ret |-> approx_eq_f32(acc.x, other)])

KindaEqVec ==
    /\ Idle("ready")
    /\ \E other \in Vectors("float"), tolerance \in Tolerances :
          Call([op |-> "kinda_eq_vec", self |-> acc, other |-> other,
                tolerance |-> tolerance,
                ret |-> kinda_eq_vec(acc, other, tolerance)])

ApproxEqVec ==
    /\ Idle("ready")
    /\ \E other \in Vectors("float") :
          Call([op |-> "approx_eq_vec", self |-> acc, other |-> other,
                ret |-> approx_eq_vec(acc, other)])

\* a == b, a < b and a.partial_cmp(&b) of the derived traits.
Compare ==
    /\ Idle("ready")
    /\ \E other \in FloatVectors :
          Call([op |-> "compare", self |-> acc, other |-> other,
                eq |-> eq("float", acc, other),
                lt |-> lt("float", acc, other),
                partial_cmp |-> partial_cmp("float", acc, other)])

NextFloat ==
    \/ FloatNew \/ Default
    \/ Normalized \/ LimitLength
    \/ FloatOrthogonal \/ Rotated
    \/ KindaEqF32 \/ ApproxEqF32 \/ KindaEqVec \/ ApproxEqVec
    \/ Compare
    \/ Return

SpecFloat == InitFloat /\ [][NextFloat]_vars

(***************************************************************************)
(* Properties of the methods of lib.rs (under SpecFloat).                  *)
(***************************************************************************)
IsZeroVector(v) == IsZero(v.x) /\ IsZero(v.y)
IsFiniteVector(v) == IsFin(v.x) /\ IsFin(v.y)

\* C3: normalized() and limit_length(max) return the zero vector unchanged
\* (for every max), and each returns its input unchanged, without dividing,
\* whenever its guard fails: length_squared() == 0 for normalized,
\* length() <= 0 or max >= length() for limit_length.
C3_UnchangedWhenGuardFails ==
    /\ frame.op = "normalized" =>
          LET v == frame.self
              r == frame.ret
          IN /\ IsZeroVector(v) => r.val = v
             /\ float_eq(length_squared(v), FZero) => (r.val = v /\ ~r.divided)
    /\ frame.op = "limit_length" =>
          LET v == frame.self
              r == frame.ret
          IN /\ IsZeroVector(v) => r.val = v
             /\ (float_le(length(v), FZero) \/ float_ge(frame.len, length(v))) =>
                   (r.val = v /\ ~r.divided)

\* limit_length(-1.0) on the zero vector (0.0, -0.0) returned it as it was.
C3_Witness ==
    /\ frame.op = "limit_length"
    /\ frame.self = [x |-> Fin(0, 0), y |-> Fin(1, 0)]
    /\ frame.len = Fin(1, OneUnits)
    /\ frame.ret.val = frame.self
    /\ ~frame.ret.divided

\* r is zero or has the sign of a; r is zero or has the sign opposite to a.
SameSignOrZero(a, r) == IsZero(r) \/ (IsFin(r) /\ r.s = a.s)
OppositeSignOrZero(a, r) == IsZero(r) \/ (IsFin(r) /\ r.s # a.s)

\* C7 as claimed: for every finite vector and every finite max (max <= 0
\* included) the result of limit_length(max) has length at most max whenever
\* the vector is longer than max, and it points the way the vector does.
C7_ClampsAndKeepsDirection ==
    frame.op = "limit_length" =>
        LET v == frame.self
            r == frame.ret.val
        IN (IsFiniteVector(v) /\ IsFin(frame.len)) =>
              /\ float_gt(length(v), frame.len) => float_le(length(r), frame.len)
              /\ SameSignOrZero(v.x, r.x)
              /\ SameSignOrZero(v.y, r.y)

\* C7 as amended: when length() > 0 and max < length() the result is
\* (v / length()) * max, each component divided and then multiplied in
\* floating point, and otherwise it is v unchanged.  For a finite v and
\* max >= 0 each component of the result is zero or keeps its sign, so the
\* direction is never reversed; for a finite v and a finite max < 0 that is
\* rescaled, each component is zero or changes sign, so the result points the
\* opposite way and its length exceeds max.
C7_RescalesByMaxOverLength ==
    frame.op = "limit_length" =>
        LET v == frame.self
            max == frame.len
            r == frame.ret.val
            l == length(v)
            rescales == float_gt(l, FZero) /\ float_lt(max, l)
        IN /\ frame.ret.divided <=> rescales
           /\ rescales =>
                 r = [x |-> float_mul(float_div(v.x, l), max),
                      y |-> float_mul(float_div(v.y, l), max)]
           /\ ~rescales => r = v
           /\ (IsFiniteVector(v) /\ float_ge(max, FZero)) =>
                 (SameSignOrZero(v.x, r.x) /\ SameSignOrZero(v.y, r.y))
           /\ (IsFiniteVector(v) /\ IsFin(max) /\ float_lt(max, FZero) /\ rescales) =>
                 /\ OppositeSignOrZero(v.x, r.x)
                 /\ OppositeSignOrZero(v.y, r.y)
                 /\ float_gt(length(r), max)

\* (1, 2).limit_length(-1.0): the result points the opposite way.
C7_Witness ==
    /\ frame.op = "limit_length"
    /\ frame.self = [x |-> Fin(0, OneUnits), y |-> Fin(0, 2 * OneUnits)]
    /\ frame.len = Fin(1, OneUnits)
    /\ frame.ret.divided
    /\ frame.ret.val.x.s = 1
    /\ frame.ret.val.y.s = 1
    /\ ~IsZeroVector(frame.ret.val)

\* C8: scalar kinda_eq(a, b, tolerance) is true exactly when a == b or
\* |a - b| < tolerance, so with tolerance <= 0 it is a == b; vector kinda_eq
\* is true exactly when both components are kinda_eq with that tolerance;
\* approx_eq is kinda_eq with the tolerance 0.00001 at both levels.
C8_KindaEq ==
    /\ frame.op = "kinda_eq_f32" =>
          /\ frame.ret <=>
                \/ float_eq(frame.self, frame.other)
                \/ float_lt(float_abs(float_sub(frame.self, frame.other)), frame.tolerance)
          /\ float_le(frame.tolerance, FZero) =>
                (frame.ret <=> float_eq(frame.self, frame.other))
    /\ frame.op = "kinda_eq_vec" =>
          (frame.ret <=>
              /\ kinda_eq_f32(frame.self.x, frame.other.x, frame.tolerance)
              /\ kinda_eq_f32(frame.self.y, frame.other.y, frame.tolerance))
    /\ frame.op = "approx_eq_f32" =>
          (frame.ret <=> kinda_eq_f32(frame.self, frame.other, Round(0, OneUnits, 100000)))
    /\ frame.op = "approx_eq_vec" =>
          (frame.ret <=> kinda_eq_vec(frame.self, frame.other, Round(0, OneUnits, 100000)))

\* Two vectors that differ in both components were approx_eq.
C8_Witness ==
    /\ frame.op = "approx_eq_vec"
    /\ frame.ret
    /\ ~float_eq(frame.self.x, frame.other.x)
    /\ ~float_eq(frame.self.y, frame.other.y)

\* C9: vectors compare lexicographically on (x, y): a == b exactly when
\* a.x == b.x and a.y == b.y; a < b exactly when a.x < b.x, or a.x == b.x
\* and a.y < b.y; the default vector is (default(T), default(T)).
C9_Lexicographic ==
    /\ frame.op = "compare" =>
          LET a == frame.self
              b == frame.other
          IN /\ frame.eq <=> (float_eq(a.x, b.x) /\ float_eq(a.y, b.y))
             /\ frame.lt <=>
                   \/ float_lt(a.x, b.x)
                   \/ (float_eq(a.x, b.x) /\ float_lt(a.y, b.y))
    /\ frame.op = "default" => acc = [x |-> Fin(0, 0), y |-> Fin(0, 0)]

\* a < b was decided by y, the x components being -0.0 and 0.0, although
\* a.y < b.y alone would not decide it.
C9_Witness ==
    /\ frame.op = "compare"
    /\ frame.lt
    /\ frame.self.x = Fin(1, 0)
    /\ frame.other.x = Fin(0, 0)
    /\ float_lt(frame.self.y, frame.other.y)

\* C10 as claimed: orthogonal() is (y, -x), perpendicular to the input,
\* with the same squared length, and it agrees with rotated(TAU/4), as far
\* as the library's approx_eq tells.
C10_OrthogonalIsRotatedQuarterTurn ==
    frame.op = "orthogonal" =>
        LET v == frame.self
            r == frame.ret.val
        IN /\ r = [x |-> v.y, y |-> float_neg(v.x)]
           /\ IsFiniteVector(v) => approx_eq_vec(r, rotated(v, QuarterTurn))

\* C10 as amended: orthogonal() is (y, -x); its squared length is that of
\* the input; its dot product with the input is 0 whenever x * y is finite.
\* It is not rotated(TAU/4): that sends (x, y) to about (-y, x), the
\* opposite vector.  For a finite input orthogonal() == rotated(TAU/4) only
\* for the zero vector, its dot product with rotated(TAU/4) is never
\* positive and its dot product with rotated(-TAU/4) is never negative.
C10_OrthogonalIsOppositeQuarterTurn ==
    frame.op = "orthogonal" =>
        LET v == frame.self
            r == frame.ret.val
        IN /\ frame.ret.ok
           /\ r = [x |-> v.y, y |-> float_neg(v.x)]
           /\ length_squared(r) = length_squared(v)
           /\ IsFin(float_mul(v.x, v.y)) => float_eq(dot(v, r), FZero)
           /\ IsFiniteVector(v) =>
                 /\ eq("float", r, rotated(v, QuarterTurn)) <=> IsZeroVector(v)
                 /\ ~float_gt(dot(r, rotated(v, QuarterTurn)), FZero)
                 /\ ~float_lt(dot(r, rotated(v, float_neg(QuarterTurn))), FZero)

\* (1, 2).orthogonal() is (2, -1).
C10_Witness ==
    /\ frame.op = "orthogonal"
    /\ frame.self = [x |-> Fin(0, OneUnits), y |-> Fin(0, 2 * OneUnits)]
    /\ frame.ret.val = [x |-> Fin(0, 2 * OneUnits), y |-> Fin(1, OneUnits)]

====
